---- MODULE Spec2Model ----
(***************************************************************************)
(* Model of the baseball almanac scraper (baseball_scraper.py) and of the  *)
(* repair layer (data_cleaner.py).                                         *)
(*                                                                         *)
(*   SpecWalk   the row walk of get_data over one table, one row a step    *)
(*   SpecPage   get_data's loop over the tables of one page                *)
(*   SpecClean  clean_team_standings over records as load_csv_with_fallback*)
(*              or another caller hands them over                          *)
(*   SpecLeader load_csv_with_fallback followed by clean_leaderboard       *)
(*   SpecProcess process_dataframes over the five loaded DataFrames, then  *)
(*              the writes of __main__                                     *)
(*   SpecRun    scrape_american_league: the year loop and save_data_to_csv *)
(*                                                                         *)
(* Python dicts are functions (EmptyDict is {}), lists are sequences,      *)
(* None is the value None, NaN the value NaN.  Texts are drawn from small  *)
(* vocabularies; lower(), strip() and the "in" substring tests are tables  *)
(* over those vocabularies.                                                *)
(***************************************************************************)
EXTENDS Integers, Sequences, FiniteSets, TLC

VARIABLES
    \* ---- get_data, one table's row walk (baseball_scraper.py 103-173)
    len_rows,            \* len(rows) of the table being walked
    row_index,           \* row_index
    cells,               \* cells of the row processed last
    headers,             \* headers
    current_division,    \* current_division
    rowspan_tracker,     \* rowspan_tracker: header_index -> {value, remaining}
    previous_row_data,   \* previous_row_data
    data_rows,           \* data_rows
    banners_seen,        \* history: how many of the rows walked so far were banner rows
    \* ---- get_data, the loop over the tables of a page (78-209)
    n_divs,              \* how many table divs the page holds
    div_index,           \* how many of them the loop has visited
    table_index,         \* table_index
    title_bound,         \* whether the local name title is bound yet
    results,             \* hitters, pitchers, team_standings, pitcher_leaderboard, hitter_leaderboard
    last_table,          \* the table visited last: what it was and what became of it
    page_pc,             \* "loop", "returned" or "raised"
    \* ---- data_cleaner.py
    df_source,           \* "file": df_in is read by load_csv_with_fallback; "frame": a caller built it
    file_lines,          \* the lines of the stored file read so far
    df_in,               \* the DataFrame handed to the cleaning function
    df_fixed,            \* clean_team_standings: df after line 64
    df_out,              \* the DataFrame the cleaning function returned
    clean_pc,            \* "load" or "done"
    \* ---- process_dataframes and __main__ (data_cleaner.py 176-203, 275-290)
    dataframes,          \* dataframes: name -> DataFrame
    cleaned_dataframes,  \* cleaned_dataframes
    proc_index,          \* how many items of dataframes the loop has visited
    proc_pc,             \* "loop", "returned", "written" or "raised"
    \* ---- scrape_american_league and save_data_to_csv (baseball_scraper.py 240-302)
    n_years,             \* len(year_links)
    year_index,          \* how many year pages the loop has finished
    type_index,          \* how many items of year_table_data the inner loop has visited
    table,               \* the value of the item visited last: no table, or one
    row_counters,        \* row_counters
    stores,              \* per table type, the ids of the lines this run appended to its file
    run_pc               \* "scrape", "items", "done" or "raised"

walk_vars == <<len_rows, row_index, cells, headers, current_division,
               rowspan_tracker, previous_row_data, data_rows, banners_seen>>
page_vars == <<n_divs, div_index, table_index, title_bound, results, last_table, page_pc>>
clean_vars == <<df_source, file_lines, df_in, df_fixed, df_out, clean_pc>>
proc_vars == <<dataframes, cleaned_dataframes, proc_index, proc_pc>>
run_vars == <<n_years, year_index, type_index, table, row_counters, stores, run_pc>>
late_vars == <<proc_vars, run_vars>>
vars == <<walk_vars, page_vars, clean_vars, late_vars>>

-----------------------------------------------------------------------------
(* Bounds *)

\* largest len(rows) of a walked table
MaxRows == 7

-----------------------------------------------------------------------------
(* Python values *)

None == "<None>"
EmptyDict == [k \in {} |-> ""]

\* dict.get(key, default)
DictGet(d, key, default) == IF key \in DOMAIN d THEN d[key] ELSE default

\* d[key] = value
DictSet(d, key, value) ==
    [k \in DOMAIN d \cup {key} |-> IF k = key THEN value ELSE d[k]]

-----------------------------------------------------------------------------
(* The DOM collaborator: cells with a class attribute, a text and a rowspan *)
(* attribute ("" when the attribute is absent).                             *)

\* header_map.get(text, text)
header_map(text) ==
    CASE text = "Statistic"     -> "statistic"
      [] text = "Name(s)"       -> "name"
      [] text = "Team(s)"       -> "team"
      [] text = "#"             -> "value"
      [] text = "Top 25"        -> "top_25"
      [] text = "Team | Roster" -> "team_roster"
      [] text = "W"             -> "wins"
      [] text = "L"             -> "losses"
      [] text = "WP"            -> "win_percentage"
      [] text = "GB"            -> "games_behind"
      [] OTHER                  -> text

\* "banner" in cls
HasBanner(cls) == cls \in {"banner", "banner middle"}
\* "banner middle" in cls
HasBannerMiddle(cls) == cls = "banner middle"
\* "east" in text.lower() or "west" in text.lower()
IsEastWest(text) == text \in {"East", "West"}
\* rowspan.isdigit()
IsDigit(s) == s \in {"0", "1", "2", "3"}
\* int(rowspan)
ToInt(s) == CASE s = "0" -> 0 [] s = "1" -> 1 [] s = "2" -> 2 [] s = "3" -> 3

Cell(cls, text, rowspan) == [cls |-> cls, text |-> text, rowspan |-> rowspan]

\* banner cells: W and L are header_map keys, East is not
bW == Cell("banner", "W", "")
bL == Cell("banner", "L", "")
bE == Cell("banner middle", "East", "2")
\* a middle banner without rowspan, and a row-spanning one that is not East/West
bEn == Cell("banner middle", "East", "")
bWm == Cell("banner middle", "W", "2")
\* data cells: plain, spanning 3 and 2 rows, and with a rowspan that is no number
dA == Cell("", "a", "")
dB == Cell("", "b", "")
dA3 == Cell("", "a", "3")
dB2 == Cell("", "b", "2")
dBx == Cell("", "b", "x")
dB1 == Cell("", "b", "1")

BannerCells == {bW, bL, bE}
DataCells == {dA, dB, dA3}

\* the rows a table may hold: every row of at most two cells over BannerCells
\* or over DataCells, the empty row, and some rows with the rarer cells
Rows ==
    {<<>>}
    \cup {<<c>> : c \in BannerCells \cup DataCells}
    \cup {<<c, d>> : c \in BannerCells, d \in BannerCells}
    \cup {<<c, d>> : c \in DataCells, d \in DataCells}
    \cup { <<bWm, bL>>, <<bEn, dA>>,
           <<dB2, dA>>, <<dA, dB2>>, <<dBx, dA>>, <<dB1, dA>>, <<dA, dB, dA>> }

-----------------------------------------------------------------------------
(* get_data: one row of the walk *)

\* line 116: any("banner" in cls for cls in cell_classes)
IsBannerRow(row) == \E i \in 1..Len(row) : HasBanner(row[i].cls)

\* lines 119-128: what one banner cell appends to headers
BannerCellHeaders(cell) ==
    IF HasBannerMiddle(cell.cls) /\ cell.rowspan # ""
    THEN IF IsEastWest(cell.text) THEN <<"Division">> ELSE <<>>
    ELSE IF HasBanner(cell.cls) THEN <<header_map(cell.text)>> ELSE <<>>

\* mutant: the list is not emptied first (line 117 missing)
RECURSIVE BannerHeadersKeep(_, _)
BannerHeadersKeep(old, row) ==
    IF row = <<>> THEN old
    ELSE BannerHeadersKeep(old, SubSeq(row, 1, Len(row) - 1))
            \o BannerCellHeaders(row[Len(row)])

\* lines 117-128: headers after a banner row (old is the list before the row)
RECURSIVE BannerHeaders(_, _)
BannerHeaders(old, row) ==
    IF row = <<>> THEN <<>>
    ELSE BannerHeaders(old, SubSeq(row, 1, Len(row) - 1))
            \o BannerCellHeaders(row[Len(row)])

\* lines 118-125: current_division after a banner row
RECURSIVE BannerDivision(_)
BannerDivision(row) ==
    IF row = <<>> THEN None
    ELSE LET c == row[Len(row)]
         IN IF HasBannerMiddle(c.cls) /\ c.rowspan # "" /\ IsEastWest(c.text)
            THEN c.text
            ELSE BannerDivision(SubSeq(row, 1, Len(row) - 1))

\* a walk that never fills a position with the group label
DivisionNeverApplies(header, division) == FALSE

\* line 139: header == "Division" and current_division
DivisionApplies(header, division) == header = "Division" /\ division # None

\* lines 145-146
RowspanLive(tracker, hi) == hi \in DOMAIN tracker /\ tracker[hi].remaining > 0

\* mutant: remaining is not decremented
RowspanUseStuck(entry) == entry

\* line 149: the entry after one use
RowspanUse(entry) == [entry EXCEPT !.remaining = @ - 1]

\* mutant: a ragged position is left empty
RaggedValueBlank(prev, header) == ""

\* line 154
RaggedValue(prev, header) == DictGet(prev, header, "")

\* mutant: the key is set only when the previous record has it
EmitRaggedIfKnown(row_data, prev, header) ==
    IF header \in DOMAIN prev THEN DictSet(row_data, header, prev[header]) ELSE row_data

\* line 154: row_data after the ragged-row rule
EmitRagged(row_data, prev, header) == DictSet(row_data, header, RaggedValue(prev, header))

\* mutant: the walk stops one row later
WalkEndLate(n) == n - 1

\* line 110: the walk goes on while row_index < len(rows) - 2
WalkEnd(n) == n - 2

\* lines 160-165: the tracker after a physical cell was read at header_index hi
RowspanInstall(tracker, hi, cell) ==
    IF cell.rowspan # "" /\ IsDigit(cell.rowspan)
    THEN DictSet(tracker, hi, [value |-> cell.text, remaining |-> ToInt(cell.rowspan) - 1])
    ELSE tracker

\* lines 136-169: the inner while loop from (header_index, cell_index) on
RECURSIVE Assemble(_, _, _, _, _, _, _, _)
Assemble(row, hs, division, prev, hi, ci, row_data, tracker) ==
    IF hi >= Len(hs) THEN [row_data |-> row_data, rowspan_tracker |-> tracker]
    ELSE LET header == hs[hi + 1] IN
         IF DivisionApplies(header, division)
         THEN Assemble(row, hs, division, prev, hi + 1, ci,
                       DictSet(row_data, "Division", division), tracker)
         ELSE IF RowspanLive(tracker, hi)
         THEN Assemble(row, hs, division, prev, hi + 1, ci,
                       DictSet(row_data, header, tracker[hi].value),
                       [tracker EXCEPT ![hi] = RowspanUse(@)])
         ELSE IF ci >= Len(row)
         THEN Assemble(row, hs, division, prev, hi + 1, ci,
                       EmitRagged(row_data, prev, header), tracker)
         ELSE Assemble(row, hs, division, prev, hi + 1, ci + 1,
                       DictSet(row_data, header, row[ci + 1].text),
                       RowspanInstall(tracker, hi, row[ci + 1]))

\* lines 133-169: one data row
AssembleRow(row, hs, division, prev, tracker) ==
    Assemble(row, hs, division, prev, 0, 0, EmptyDict, tracker)

-----------------------------------------------------------------------------
(* SpecWalk: the row walk of one table, lines 103-173 *)

page_idle ==
    /\ n_divs = 0 /\ div_index = 0 /\ table_index = 0 /\ title_bound = FALSE
    /\ results = <<>> /\ last_table = <<>> /\ page_pc = "idle"
clean_idle ==
    /\ df_source = "none" /\ file_lines = <<>> /\ df_in = <<>>
    /\ df_fixed = <<>> /\ df_out = <<>> /\ clean_pc = "idle"

proc_idle ==
    /\ dataframes = <<>> /\ cleaned_dataframes = <<>>
    /\ proc_index = 0 /\ proc_pc = "idle"
run_idle ==
    /\ n_years = 0 /\ year_index = 0 /\ type_index = 0 /\ table = <<>>
    /\ row_counters = <<>> /\ stores = <<>> /\ run_pc = "idle"
late_idle == proc_idle /\ run_idle

\* lines 93, 103-109
WalkInit ==
    /\ len_rows \in 3..MaxRows
    /\ row_index = 1
    /\ cells = <<>>
    /\ headers = <<>>
    /\ current_division = None
    /\ rowspan_tracker = EmptyDict
    /\ previous_row_data = EmptyDict
    /\ data_rows = <<>>
    /\ banners_seen = 0
    /\ page_idle /\ clean_idle /\ late_idle

\* lines 110-130: the next row is a banner row
BannerRow ==
    /\ row_index < WalkEnd(len_rows)
    /\ \E row \in Rows :
        /\ IsBannerRow(row)
        /\ cells' = row
        /\ headers' = BannerHeaders(headers, row)
        /\ current_division' = BannerDivision(row)
    /\ row_index' = row_index + 1
    /\ banners_seen' = banners_seen + 1
    /\ UNCHANGED <<len_rows, rowspan_tracker, previous_row_data, data_rows>>
    /\ UNCHANGED <<page_vars, clean_vars, late_vars>>

\* lines 110-113, 132-173: the next row is a data row
DataRow ==
    /\ row_index < WalkEnd(len_rows)
    /\ \E row \in Rows :
        /\ ~IsBannerRow(row)
        /\ cells' = row
        /\ LET r == AssembleRow(row, headers, current_division,
                                previous_row_data, rowspan_tracker)
           IN /\ rowspan_tracker' = r.rowspan_tracker
              /\ previous_row_data' = r.row_data
              /\ data_rows' = Append(data_rows, r.row_data)
    /\ row_index' = row_index + 1
    /\ UNCHANGED <<len_rows, headers, current_division, banners_seen>>
    /\ UNCHANGED <<page_vars, clean_vars, late_vars>>

WalkNext == BannerRow \/ DataRow
SpecWalk == WalkInit /\ [][WalkNext]_vars

-----------------------------------------------------------------------------
(* Captions.  A text is a sequence of tokens separated by blanks; a token   *)
(* is a sequence of words written without a blank between them (one word,   *)
(* unless two texts were concatenated).  "x in text" over these texts: the  *)
(* words of x lie in consecutive tokens, the first at the end of its token, *)
(* the last at the start of its token, the others filling theirs.           *)

\* str.lower(), word by word
LowerWord(w) ==
    CASE w = "Team"      -> "team"
      [] w = "Review"    -> "review"
      [] w = "REVIEW"    -> "review"
      [] w = "Hitting"   -> "hitting"
      [] w = "Pitching"  -> "pitching"
      [] w = "Fielding"  -> "fielding"
      [] w = "Standings" -> "standings"
      [] w = "Player"    -> "player"
      [] OTHER           -> w
Lower(text) == [i \in 1..Len(text) |-> [j \in 1..Len(text[i]) |-> LowerWord(text[i][j])]]

\* title.lower() + subtitle.lower(): no blank is put between the two texts
Concat(a, b) ==
    IF a = <<>> THEN b
    ELSE IF b = <<>> THEN a
    ELSE SubSeq(a, 1, Len(a) - 1) \o <<a[Len(a)] \o b[1]>> \o SubSeq(b, 2, Len(b))

\* pattern in text, the pattern a sequence of words
Contains(text, pattern) ==
    LET k == Len(pattern)
    IN IF k = 1
       THEN \E i \in 1..Len(text) : \E j \in 1..Len(text[i]) : text[i][j] = pattern[1]
       ELSE \E i \in 1..(Len(text) - k + 1) :
              /\ text[i][Len(text[i])] = pattern[1]
              /\ text[i + k - 1][1] = pattern[k]
              /\ \A m \in 2..(k - 1) : text[i + m - 1] = <<pattern[m]>>

\* a text of one-word tokens
Text(ws) == [i \in 1..Len(ws) |-> <<ws[i]>>]

\* lines 41-47
pitcher_or_hitter(title, subtitle) ==
    IF Contains(Lower(title), <<"team", "review">>)
    THEN IF Contains(Lower(subtitle), <<"hitting">>) THEN "hitting"
         ELSE IF Contains(Lower(subtitle), <<"pitching">>) THEN "pitching"
         ELSE None
    ELSE None

-----------------------------------------------------------------------------
(* get_data: the loop over the table divs of a page, lines 78-209 *)

\* most table divs on one page
MaxTables == 3

Kinds == {"hitters", "pitchers", "team_standings", "pitcher_leaderboard", "hitter_leaderboard"}

\* lines 96-101: title and subtitle as read from rows[0] (subtitle "" when the
\* caption row has no h2 and p)
Captions ==
    { <<Text(<<"Team", "Review">>), Text(<<"Hitting", "Statistics">>)>>,
      <<Text(<<"2019", "Team", "REVIEW">>), Text(<<"Team", "Pitching">>)>>,
      <<Text(<<"Team", "Review">>), Text(<<"Fielding">>)>>,
      <<Text(<<"Player", "Review">>), Text(<<"Hitting", "Statistics">>)>>,
      <<Text(<<"Team", "Standings">>), Text(<<"American">>)>>,
      <<Text(<<"American", "Team">>), Text(<<"Standings">>)>>,
      <<Text(<<"Player", "Review">>), <<>>>> }

\* rows[1 : len(rows) - 2] of the tables of a page
Windows ==
    { <<>>,
      << <<bW, bL>>, <<dA, dB>> >>,
      << <<bE, bW>>, <<dA>>, <<bW>>, <<dB>> >> }

\* lines 103-173: the walk over a whole window, from the state st
RECURSIVE WalkRows(_, _)
WalkRows(window, st) ==
    IF window = <<>> THEN st
    ELSE LET row == Head(window) IN
         IF IsBannerRow(row)
         THEN WalkRows(Tail(window),
                [st EXCEPT !.headers = BannerHeaders(st.headers, row),
                           !.current_division = BannerDivision(row)])
         ELSE LET r == AssembleRow(row, st.headers, st.current_division,
                                   st.previous_row_data, st.rowspan_tracker)
              IN WalkRows(Tail(window),
                   [st EXCEPT !.rowspan_tracker = r.rowspan_tracker,
                              !.previous_row_data = r.row_data,
                              !.data_rows = Append(@, r.row_data)])

\* lines 103-107, 175-181: table_data of a table that was walked to the end
TableData(title, subtitle, window) ==
    LET st == WalkRows(window,
                [headers |-> <<>>, current_division |-> None,
                 rowspan_tracker |-> EmptyDict, previous_row_data |-> EmptyDict,
                 data_rows |-> <<>>])
    IN [title |-> title, subtitle |-> subtitle, headers |-> st.headers, rows |-> st.data_rows]

\* lines 183-195: the result variable table_data is assigned to, None for none
Classify(review_type, index, title, subtitle) ==
    IF review_type = "pitching" THEN "pitcher_leaderboard"
    ELSE IF review_type = "hitting" THEN "hitter_leaderboard"
    ELSE IF index = 0 THEN "hitters"
    ELSE IF index = 1 THEN "pitchers"
    ELSE IF index = 2 /\ Contains(Concat(Lower(title), Lower(subtitle)), <<"team", "standings">>)
         THEN "team_standings"
    ELSE None

\* line 81-82: a result variable is None, or holds one table_data
NoResult == <<>>
Some(table_data) == <<table_data>>

NoTable == [outcome |-> "none", title |-> <<>>, subtitle |-> <<>>, window |-> <<>>]

\* lines 80-83
PageInit ==
    /\ n_divs \in 0..MaxTables
    /\ div_index = 0
    /\ table_index = 0
    /\ title_bound = FALSE
    /\ results = [k \in Kinds |-> NoResult]
    /\ last_table = NoTable
    /\ page_pc = "loop"
    /\ len_rows = 0 /\ row_index = 0 /\ cells = <<>> /\ headers = <<>>
    /\ current_division = None /\ rowspan_tracker = EmptyDict
    /\ previous_row_data = EmptyDict /\ data_rows = <<>> /\ banners_seen = 0
    /\ clean_idle /\ late_idle

\* lines 87-94: a table with fewer than 3 rows is passed over
ShortTable ==
    /\ page_pc = "loop" /\ div_index < n_divs
    /\ div_index' = div_index + 1
    /\ last_table' = [NoTable EXCEPT !.outcome = "short"]
    /\ UNCHANGED <<n_divs, table_index, title_bound, results, page_pc>>
    /\ UNCHANGED <<walk_vars, clean_vars, late_vars>>

\* lines 88-173, 175-197: a table of 3 rows or more, read without a failure
ParsedTable ==
    /\ page_pc = "loop" /\ div_index < n_divs
    /\ \E c \in Captions, w \in Windows :
        LET title == c[1]
            subtitle == c[2]
            table_data == TableData(title, subtitle, w)
            kind == Classify(pitcher_or_hitter(title, subtitle), table_index, title, subtitle)
        IN /\ results' = IF kind = None THEN results
                         ELSE [results EXCEPT ![kind] = Some(table_data)]
           /\ last_table' = [outcome |-> "parsed", title |-> title,
                             subtitle |-> subtitle, window |-> w]
    /\ div_index' = div_index + 1
    /\ table_index' = table_index + 1
    /\ title_bound' = TRUE
    /\ UNCHANGED <<n_divs, page_pc>>
    /\ UNCHANGED <<walk_vars, clean_vars, late_vars>>

\* lines 88-101, 199-201: the DOM raises before title is assigned.  The handler
\* formats title: bound by an earlier table it prints and goes on, unbound it
\* raises out of get_data
FailBeforeTitle ==
    /\ page_pc = "loop" /\ div_index < n_divs
    /\ div_index' = div_index + 1
    /\ last_table' = [NoTable EXCEPT !.outcome = "failed early"]
    /\ page_pc' = IF title_bound THEN "loop" ELSE "raised"
    /\ UNCHANGED <<n_divs, table_index, title_bound, results>>
    /\ UNCHANGED <<walk_vars, clean_vars, late_vars>>

\* lines 96-173, 199-201: the DOM raises after title was assigned
FailAfterTitle ==
    /\ page_pc = "loop" /\ div_index < n_divs
    /\ \E c \in Captions :
        last_table' = [outcome |-> "failed", title |-> c[1], subtitle |-> c[2],
                       window |-> <<>>]
    /\ div_index' = div_index + 1
    /\ title_bound' = TRUE
    /\ UNCHANGED <<n_divs, table_index, results, page_pc>>
    /\ UNCHANGED <<walk_vars, clean_vars, late_vars>>

\* lines 203-209
PageReturn ==
    /\ page_pc = "loop" /\ div_index = n_divs
    /\ page_pc' = "returned"
    /\ UNCHANGED <<n_divs, div_index, table_index, title_bound, results, last_table>>
    /\ UNCHANGED <<walk_vars, clean_vars, late_vars>>

PageNext == ShortTable \/ ParsedTable \/ FailBeforeTitle \/ FailAfterTitle \/ PageReturn
SpecPage == PageInit /\ [][PageNext]_vars

-----------------------------------------------------------------------------
(* data_cleaner.py: values.  A str is a sequence of characters.  A cell of  *)
(* a DataFrame is a str, a number (held in thousandths), NaN or None.       *)

Str(chars) == [t |-> "str", s |-> chars, n |-> 0]
Num(thousandths) == [t |-> "num", s |-> <<>>, n |-> thousandths]
NaN == [t |-> "nan", s |-> <<>>, n |-> 0]
PyNone == [t |-> "none", s |-> <<>>, n |-> 0]

\* the one-half glyph (U+00BD), one character
Half == "1/2"

\* pd.isna(v), pd.notna(v)
IsNa(v) == v.t \in {"nan", "none"}
\* isinstance(v, str)
IsStr(v) == v.t = "str"

Digits == {"0", "1", "2", "3", "4", "5", "6", "7", "8", "9"}
DigitVal(c) ==
    CASE c = "0" -> 0 [] c = "1" -> 1 [] c = "2" -> 2 [] c = "3" -> 3 [] c = "4" -> 4
      [] c = "5" -> 5 [] c = "6" -> 6 [] c = "7" -> 7 [] c = "8" -> 8 [] c = "9" -> 9

AllIn(chars, S) == \A i \in 1..Len(chars) : chars[i] \in S

RECURSIVE DigitsValue(_)
DigitsValue(chars) ==
    IF chars = <<>> THEN 0
    ELSE 10 * DigitsValue(SubSeq(chars, 1, Len(chars) - 1)) + DigitVal(chars[Len(chars)])

\* str(n) of a whole number n >= 0
RECURSIVE NatToStr(_)
NatToStr(n) ==
    LET d == CHOOSE c \in Digits : DigitVal(c) = n % 10
    IN IF n < 10 THEN <<d>> ELSE Append(NatToStr(n \div 10), d)

\* the number a str parses to, in thousandths: digits with at most one point
\* and at most three digits after it; NaN for every other str
ParseNumber(chars) ==
    LET points == {i \in 1..Len(chars) : chars[i] = "."}
    IN IF points = {}
       THEN IF chars # <<>> /\ AllIn(chars, Digits)
            THEN Num(1000 * DigitsValue(chars)) ELSE NaN
       ELSE IF Cardinality(points) > 1 THEN NaN
       ELSE LET p == CHOOSE i \in points : TRUE
                whole == SubSeq(chars, 1, p - 1)
                frac == SubSeq(chars, p + 1, Len(chars))
            IN IF /\ AllIn(whole, Digits) /\ AllIn(frac, Digits)
                  /\ Len(whole) + Len(frac) > 0 /\ Len(frac) <= 3
               THEN Num(1000 * DigitsValue(whole)
                        + DigitsValue(frac) * (CASE Len(frac) = 0 -> 1 [] Len(frac) = 1 -> 100
                                                 [] Len(frac) = 2 -> 10 [] Len(frac) = 3 -> 1))
               ELSE NaN

\* pd.to_numeric(v, errors="coerce") of one cell
ToNumeric(v) ==
    IF v.t = "num" THEN v
    ELSE IF v.t = "str" THEN ParseNumber(v.s)
    ELSE NaN

\* astype(str) of one cell
AsTypeStr(v) ==
    IF v.t = "str" THEN v.s
    ELSE IF v.t = "nan" THEN <<"n", "a", "n">>
    ELSE IF v.t = "none" THEN <<"N", "o", "n", "e">>
    ELSE NatToStr(v.n \div 1000)

\* str.isnumeric(): not empty and every character numeric (the one-half glyph is)
IsNumericStr(chars) == chars # <<>> /\ AllIn(chars, Digits \cup {Half})

\* str.replace(old, new) for a one-character old
RECURSIVE Replace(_, _, _)
Replace(chars, old, new) ==
    IF chars = <<>> THEN <<>>
    ELSE (IF Head(chars) = old THEN new ELSE <<Head(chars)>>) \o Replace(Tail(chars), old, new)

\* str.strip()
RECURSIVE Strip(_)
Strip(chars) ==
    IF chars = <<>> THEN <<>>
    ELSE IF Head(chars) = " " THEN Strip(Tail(chars))
    ELSE IF chars[Len(chars)] = " " THEN Strip(SubSeq(chars, 1, Len(chars) - 1))
    ELSE chars

\* str.split(","): the fields of a line, at least one
RECURSIVE SplitComma(_)
SplitComma(chars) ==
    LET commas == {i \in 1..Len(chars) : chars[i] = ","}
    IN IF commas = {} THEN <<chars>>
       ELSE LET p == CHOOSE i \in commas : \A j \in commas : i <= j
            IN <<SubSeq(chars, 1, p - 1)>> \o SplitComma(SubSeq(chars, p + 1, Len(chars)))

-----------------------------------------------------------------------------
(* data_cleaner.py: DataFrames.  A DataFrame is the sequence of its rows in *)
(* order; a row holds its index label and one cell per column.              *)

\* most lines of a stored file, most rows of a DataFrame handed over
MaxDfRows == 2

\* lines 212-221
team_standings_columns ==
    <<"id", "year", "team_roster", "wins", "losses", "win_percentage", "games_behind">>
leaderboard_columns == <<"id", "year", "statistic", "team", "value">>

\* a reconciler that puts the padding in front of the fields
ReconcileFront(row, max_columns) ==
    IF Len(row) > max_columns THEN SubSeq(row, 1, max_columns)
    ELSE [i \in 1..(max_columns - Len(row)) |-> <<>>] \o row

\* lines 154-165: a split line cut or padded to max_columns fields
Reconcile(row, max_columns) ==
    IF Len(row) > max_columns THEN SubSeq(row, 1, max_columns)
    ELSE IF Len(row) < max_columns
    THEN row \o [i \in 1..(max_columns - Len(row)) |-> <<>>]
    ELSE row

\* lines 153-166, 171: the DataFrame row a line becomes, with index label label
LoadedRow(line, expected_columns, label) ==
    LET row == Reconcile(SplitComma(Strip(line)), Len(expected_columns))
        col(name) == CHOOSE i \in 1..Len(expected_columns) : expected_columns[i] = name
    IN [name \in {expected_columns[i] : i \in 1..Len(expected_columns)} \cup {"index"} |->
            IF name = "index" THEN Num(1000 * label) ELSE Str(row[col(name)])]

\* a row without its index label
Record(row) == [name \in DOMAIN row \ {"index"} |-> row[name]]

\* df.dropna(subset=subset)
DropNa(df, subset) == SelectSeq(df, LAMBDA row : \A name \in subset : ~IsNa(row[name]))

\* df.drop_duplicates(): the first of equal records stays
RECURSIVE DropDuplicates(_)
DropDuplicates(df) ==
    IF df = <<>> THEN <<>>
    ELSE LET front == SubSeq(df, 1, Len(df) - 1)
             last == df[Len(df)]
         IN IF \E i \in 1..Len(front) : Record(front[i]) = Record(last)
            THEN DropDuplicates(front)
            ELSE Append(DropDuplicates(front), last)

\* df.reset_index(drop=True)
ResetIndex(df) == [i \in 1..Len(df) |-> [df[i] EXCEPT !["index"] = Num(1000 * (i - 1))]]

-----------------------------------------------------------------------------
(* clean_team_standings, lines 41-86 *)

\* a repair that moves the fields but leaves games_behind as it was
fix_misaligned_row_stale(row) ==
    IF (IsNa(row["team_roster"]) \/ row["team_roster"] = Str(<<>>)) /\ IsStr(row["wins"])
    THEN [row EXCEPT !["team_roster"] = row["wins"],
                     !["wins"] = row["losses"],
                     !["losses"] = row["win_percentage"],
                     !["win_percentage"] = row["games_behind"]]
    ELSE row

\* lines 49-61
fix_misaligned_row(row) ==
    IF IsNa(row["team_roster"]) \/ row["team_roster"] = Str(<<>>)
    THEN IF ~IsNa(row["wins"]) /\ IsStr(row["wins"])
         THEN [row EXCEPT !["team_roster"] = row["wins"],
                          !["wins"] = row["losses"],
                          !["losses"] = row["win_percentage"],
                          !["win_percentage"] = row["games_behind"],
                          !["games_behind"] = PyNone]
         ELSE row
    ELSE row

\* line 64
ApplyFix(df) == [i \in 1..Len(df) |-> fix_misaligned_row(df[i])]

\* a cleaning that keeps every team_roster
KeepAllTeams(df) == df

\* line 67
KeepNonNumericTeams(df) ==
    SelectSeq(df, LAMBDA row : ~IsNumericStr(AsTypeStr(row["team_roster"])))

\* lines 73-75
GamesBehindToNumeric(v) == ParseNumber(Replace(AsTypeStr(v), Half, <<".", "5">>))

\* lines 70-75
CoerceStandings(df) ==
    [i \in 1..Len(df) |->
        [df[i] EXCEPT !["wins"] = ToNumeric(@),
                      !["losses"] = ToNumeric(@),
                      !["win_percentage"] = ToNumeric(@),
                      !["games_behind"] = GamesBehindToNumeric(@)]]

\* lines 66-86, from the repaired DataFrame on
FinishStandings(df) ==
    ResetIndex(DropDuplicates(DropNa(CoerceStandings(KeepNonNumericTeams(df)),
                                     {"wins", "losses", "win_percentage"})))

\* lines 41-86
clean_team_standings(df) == FinishStandings(ApplyFix(df))

-----------------------------------------------------------------------------
(* clean_leaderboard, lines 89-135 *)

\* lines 118-125
ValueToNumeric(v) ==
    ParseNumber(Strip(Replace(Replace(AsTypeStr(v), ",", <<>>), "\"", <<>>)))

\* line 114
DropMissingLeaders(df) == DropNa(df, {"statistic", "team", "value"})

\* lines 117-127
CoerceLeaders(df) == [i \in 1..Len(df) |-> [df[i] EXCEPT !["value"] = ValueToNumeric(@)]]

\* lines 97-135; the input has the five expected columns already, so lines
\* 106-107 keep every column and its name
clean_leaderboard(df) ==
    IF df = <<>> THEN df
    ELSE ResetIndex(DropDuplicates(CoerceLeaders(DropMissingLeaders(df))))

-----------------------------------------------------------------------------
(* The stored files and the frames of the two cleaning specifications *)

cId == <<"1">>
cYear == <<"2", "0", "1", "9">>
cNY == <<"N", "Y">>
cEast == <<"E", "a", "s", "t">>
c95 == <<"9", "5">>
c67 == <<"6", "7">>
cWP == <<".", "5", "8", "6">>
cGB == <<"3", Half>>
cHR == <<"H", "R">>
cQuoted == <<"\"", "1", ",", "2", "\"">>

\* ",".join(fields)
RECURSIVE Join(_)
Join(fields) ==
    IF fields = <<>> THEN <<>>
    ELSE IF Len(fields) = 1 THEN fields[1]
    ELSE fields[1] \o <<",">> \o Join(Tail(fields))

\* the characters of a column name
NameChars(name) ==
    CASE name = "id" -> <<"i", "d">>
      [] name = "year" -> <<"y", "e", "a", "r">>
      [] name = "team_roster" -> <<"t", "e", "a", "m", "_", "r", "o", "s", "t", "e", "r">>
      [] name = "wins" -> <<"w", "i", "n", "s">>
      [] name = "losses" -> <<"l", "o", "s", "s", "e", "s">>
      [] name = "win_percentage" ->
            <<"w", "i", "n", "_", "p", "e", "r", "c", "e", "n", "t", "a", "g", "e">>
      [] name = "games_behind" ->
            <<"g", "a", "m", "e", "s", "_", "b", "e", "h", "i", "n", "d">>
      [] name = "statistic" ->
            <<"s", "t", "a", "t", "i", "s", "t", "i", "c">>
      [] name = "team" -> <<"t", "e", "a", "m">>
      [] name = "value" -> <<"v", "a", "l", "u", "e">>
HeaderLine(columns) == Join([i \in 1..Len(columns) |-> NameChars(columns[i])])

\* lines of team_standings_data.csv: the header line, rows with and without a
\* team, rows that lost their first column, a short and a long row
StandingsLines ==
    { Join(<<cId, cYear, team, wins>> \o rest) :
        team \in {<<>>, cNY, cEast, <<"7">>},
        wins \in {c95, cNY, <<>>},
        rest \in {<<c67, cWP, cGB>>, <<c67, cWP, <<>>>>, <<c95, c67, cWP>>} }
    \cup { HeaderLine(team_standings_columns),
           Join(<<cId, cYear, cNY>>),
           Join(<<cId, cYear, cNY, c95, c67, cWP, cGB, cNY>>),
           Join(<<cId, cYear, cNY, c95, c67, cWP, cGB, cNY, cEast>>),
           Join(<<cId, cYear, cNY, c95, c67>>) }

\* rows of a standings DataFrame a caller built (as pd.read_csv types them)
StandingsRecords ==
    { [id |-> Num(1000), year |-> Num(2019000), team_roster |-> team, wins |-> wins,
       losses |-> Str(rest[1]), win_percentage |-> Str(rest[2]), games_behind |-> Str(rest[3])] :
        team \in {NaN, Str(<<>>), Str(cNY)},
        wins \in {NaN, Num(95000), Str(cNY), Str(c95)},
        rest \in {<<c67, cWP, cGB>>, <<c95, c67, cWP>>} }

\* lines of a leaderboard file: the header line, full rows, rows cut short at
\* every width, a long row, a row whose value was written in quotes, a row
\* with blanks around it
LeaderLines ==
    { Join(<<cId, cYear, statistic, team, value>>) :
        statistic \in {cHR, <<>>}, team \in {cNY, <<>>},
        value \in {<<"7">>, <<"x">>, <<>>} }
    \cup { Join(SubSeq(<<cId, cYear, cHR, cNY>>, 1, k)) : k \in 0..4 }
    \cup { HeaderLine(leaderboard_columns),
           Join(<<cId, cYear, cHR, cNY, <<"7">>, cNY>>),
           Join(<<cId, cYear, cHR, cNY, cQuoted>>),
           <<" ">> \o Join(<<cId, cYear, cHR, cNY, <<"7">>>>) \o <<" ">> }

WithIndex(rec, label) ==
    [name \in DOMAIN rec \cup {"index"} |-> IF name = "index" THEN Num(1000 * label) ELSE rec[name]]

walk_idle ==
    /\ len_rows = 0 /\ row_index = 0 /\ cells = <<>> /\ headers = <<>>
    /\ current_division = None /\ rowspan_tracker = EmptyDict
    /\ previous_row_data = EmptyDict /\ data_rows = <<>> /\ banners_seen = 0

-----------------------------------------------------------------------------
(* SpecClean: a standings DataFrame is loaded or handed over, then cleaned *)

CleanInit ==
    /\ df_source \in {"file", "frame"}
    /\ file_lines = <<>> /\ df_in = <<>> /\ df_fixed = <<>> /\ df_out = <<>>
    /\ clean_pc = "load"
    /\ walk_idle /\ page_idle /\ late_idle

\* load_csv_with_fallback, lines 150-166, one line of the standings file
LoadStandingsLine ==
    /\ clean_pc = "load" /\ df_source = "file" /\ Len(file_lines) < MaxDfRows
    /\ \E line \in StandingsLines :
        /\ file_lines' = Append(file_lines, line)
        /\ df_in' = Append(df_in, LoadedRow(line, team_standings_columns, Len(df_in)))
    /\ UNCHANGED <<df_source, df_fixed, df_out, clean_pc>>
    /\ UNCHANGED <<walk_vars, page_vars, late_vars>>

\* process_dataframes, lines 184-188, called with a frame of the caller's
GivenStandingsRow ==
    /\ clean_pc = "load" /\ df_source = "frame" /\ Len(df_in) < MaxDfRows
    /\ \E rec \in StandingsRecords : df_in' = Append(df_in, WithIndex(rec, Len(df_in)))
    /\ UNCHANGED <<df_source, file_lines, df_fixed, df_out, clean_pc>>
    /\ UNCHANGED <<walk_vars, page_vars, late_vars>>

\* clean_team_standings, lines 41-86
CleanTeamStandings ==
    /\ clean_pc = "load"
    /\ df_fixed' = ApplyFix(df_in)
    /\ df_out' = clean_team_standings(df_in)
    /\ clean_pc' = "done"
    /\ UNCHANGED <<df_source, file_lines, df_in>>
    /\ UNCHANGED <<walk_vars, page_vars, late_vars>>

CleanNext == LoadStandingsLine \/ GivenStandingsRow \/ CleanTeamStandings
SpecClean == CleanInit /\ [][CleanNext]_vars

-----------------------------------------------------------------------------
(* SpecLeader: a leaderboard file is loaded, then cleaned *)

LeaderInit ==
    /\ df_source = "file"
    /\ file_lines = <<>> /\ df_in = <<>> /\ df_fixed = <<>> /\ df_out = <<>>
    /\ clean_pc = "load"
    /\ walk_idle /\ page_idle /\ late_idle

\* load_csv_with_fallback, lines 150-166, one line of a leaderboard file
LoadLeaderLine ==
    /\ clean_pc = "load" /\ Len(file_lines) < MaxDfRows
    /\ \E line \in LeaderLines :
        /\ file_lines' = Append(file_lines, line)
        /\ df_in' = Append(df_in, LoadedRow(line, leaderboard_columns, Len(df_in)))
    /\ UNCHANGED <<df_source, df_fixed, df_out, clean_pc>>
    /\ UNCHANGED <<walk_vars, page_vars, late_vars>>

\* clean_leaderboard, lines 89-135
CleanLeaderboard ==
    /\ clean_pc = "load"
    /\ df_out' = clean_leaderboard(df_in)
    /\ clean_pc' = "done"
    /\ UNCHANGED <<df_source, file_lines, df_in, df_fixed>>
    /\ UNCHANGED <<walk_vars, page_vars, late_vars>>

LeaderNext == LoadLeaderLine \/ CleanLeaderboard
SpecLeader == LeaderInit /\ [][LeaderNext]_vars

-----------------------------------------------------------------------------
(* SpecProcess: process_dataframes over the DataFrames that                 *)
(* load_and_process_dataframes built, then the writes of __main__.  Here a  *)
(* DataFrame is its column names together with its rows.                    *)

\* pd.DataFrame(): what a file that failed to load becomes (lines 227, 233, 242)
EmptyFrame == [columns |-> <<>>, rows |-> <<>>]

\* lines 150-171: the DataFrame load_csv_with_fallback builds from a file
LoadFrame(lines, expected_columns) ==
    [columns |-> expected_columns,
     rows |-> [i \in 1..Len(lines) |-> LoadedRow(lines[i], expected_columns, i - 1)]]

HasColumns(frame, names) == names \subseteq {frame.columns[i] : i \in 1..Len(frame.columns)}

\* a cleaning function raises, or returns a DataFrame
Raises == <<>>
Returns(frame) == <<frame>>

\* lines 13-23: dropna(subset=...) raises KeyError for a column that is not there
clean_hitters(frame) ==
    IF ~HasColumns(frame, {"name", "team"}) THEN Raises
    ELSE Returns([frame EXCEPT !.rows = DropDuplicates(DropNa(@, {"name", "team"}))])

\* lines 26-38
clean_pitchers(frame) ==
    IF ~HasColumns(frame, {"name", "team"}) THEN Raises
    ELSE Returns([frame EXCEPT !.rows = ResetIndex(DropDuplicates(DropNa(@, {"name", "team"})))])

\* lines 41-86 on a DataFrame of any columns: the column reads at 50-57 and
\* 67-75 raise KeyError for a column that is not there
CleanStandingsFrame(frame) ==
    IF ~HasColumns(frame, {"team_roster", "wins", "losses", "win_percentage", "games_behind"})
    THEN Raises
    ELSE Returns([frame EXCEPT !.rows = clean_team_standings(@)])

\* lines 89-135 on a DataFrame of any columns: an empty one is returned at 100-102,
\* one of fewer than five columns at 108-111
CleanLeaderFrame(frame) ==
    IF frame.rows = <<>> THEN Returns(frame)
    ELSE IF Len(frame.columns) < Len(leaderboard_columns) THEN Returns(frame)
    ELSE Returns([columns |-> leaderboard_columns, rows |-> clean_leaderboard(frame.rows)])

\* lines 184-199
CleanedFrame(name, frame) ==
    IF name = "team_standings" THEN CleanStandingsFrame(frame)
    ELSE IF name \in {"hitters", "pitchers"}
    THEN (IF name = "hitters" THEN clean_hitters(frame) ELSE clean_pitchers(frame))
    ELSE IF name \in {"hitter_leaderboard", "pitcher_leaderboard"} THEN CleanLeaderFrame(frame)
    ELSE Returns(frame)

\* lines 261-267: the items of dataframes, in order
FrameOrder == <<"hitters", "pitchers", "team_standings", "hitter_leaderboard",
                "pitcher_leaderboard">>

\* rows of hitters_data.csv and pitchers_data.csv as pd.read_csv types them
PlayerRecords == { [name |-> n, team |-> t] : n \in {Str(cHR), NaN}, t \in {Str(cNY), NaN} }
PlayerRow(rec, label) == WithIndex(rec, label)

\* lines 224-234: hitters_df
HitterFrames ==
    { EmptyFrame,
      [columns |-> <<"name">>, rows |-> <<WithIndex([name |-> Str(cHR)], 0)>>],
      [columns |-> <<"name", "team">>,
       rows |-> <<PlayerRow([name |-> Str(cHR), team |-> Str(cNY)], 0),
                  PlayerRow([name |-> Str(cHR), team |-> Str(cNY)], 1)>>] }
    \cup { [columns |-> <<"name", "team">>, rows |-> <<PlayerRow(rec, 0)>>] : rec \in PlayerRecords }

\* lines 230-234: pitchers_df
PitcherFrames ==
    { EmptyFrame,
      [columns |-> <<"name">>, rows |-> <<WithIndex([name |-> Str(cHR)], 0)>>],
      [columns |-> <<"name", "team">>,
       rows |-> <<PlayerRow([name |-> NaN, team |-> Str(cNY)], 0),
                  PlayerRow([name |-> Str(cHR), team |-> Str(cNY)], 1)>>] }

\* lines 236-242: team_standings_df
StandingsFrames ==
    { EmptyFrame, LoadFrame(<<>>, team_standings_columns) }
    \cup { LoadFrame(<<line>>, team_standings_columns) :
            line \in { HeaderLine(team_standings_columns),
                       Join(<<cId, cYear, cNY, c95, c67, cWP, cGB>>),
                       Join(<<cId, cYear, <<>>, cNY, c95, c67, cWP>>) } }

\* lines 244-258: hitter_leaderboard_df, pitcher_leaderboard_df
LeaderFrames ==
    { EmptyFrame,
      LoadFrame(<<>>, leaderboard_columns),
      LoadFrame(<<Join(<<cId, cYear, cHR, cNY, <<"7">>>>)>>, leaderboard_columns),
      LoadFrame(<<Join(<<cId, cYear, cHR>>)>>, <<"id", "year", "statistic">>) }

\* lines 224-267
ProcessInit ==
    /\ dataframes \in { [name \in Kinds |->
                            CASE name = "hitters" -> h
                              [] name = "pitchers" -> p
                              [] name = "team_standings" -> t
                              [] name = "hitter_leaderboard" -> hl
                              [] name = "pitcher_leaderboard" -> pl] :
                        h \in HitterFrames, p \in PitcherFrames, t \in StandingsFrames,
                        hl \in LeaderFrames, pl \in LeaderFrames }
    /\ cleaned_dataframes = EmptyDict
    /\ proc_index = 0
    /\ proc_pc = "loop"
    /\ walk_idle /\ page_idle /\ clean_idle /\ run_idle

\* lines 185-201: one item of dataframes; a cleaning function that raises
\* is reported and leaves no entry
ProcessFrame ==
    /\ proc_pc = "loop" /\ proc_index < Len(FrameOrder)
    /\ LET name == FrameOrder[proc_index + 1]
           result == CleanedFrame(name, dataframes[name])
       IN cleaned_dataframes' = IF result = Raises THEN cleaned_dataframes
                                ELSE DictSet(cleaned_dataframes, name, result[1])
    /\ proc_index' = proc_index + 1
    /\ UNCHANGED <<dataframes, proc_pc>>
    /\ UNCHANGED <<walk_vars, page_vars, clean_vars, run_vars>>

\* line 203
ProcessReturn ==
    /\ proc_pc = "loop" /\ proc_index = Len(FrameOrder)
    /\ proc_pc' = "returned"
    /\ UNCHANGED <<dataframes, cleaned_dataframes, proc_index>>
    /\ UNCHANGED <<walk_vars, page_vars, clean_vars, run_vars>>

\* lines 277-290: __main__ reads the five entries; a missing one is a KeyError
MainWrite ==
    /\ proc_pc = "returned"
    /\ proc_pc' = IF \A i \in 1..Len(FrameOrder) : FrameOrder[i] \in DOMAIN cleaned_dataframes
                  THEN "written" ELSE "raised"
    /\ UNCHANGED <<dataframes, cleaned_dataframes, proc_index>>
    /\ UNCHANGED <<walk_vars, page_vars, clean_vars, run_vars>>

ProcessNext == ProcessFrame \/ ProcessReturn \/ MainWrite
SpecProcess == ProcessInit /\ [][ProcessNext]_vars

-----------------------------------------------------------------------------
(* SpecRun: scrape_american_league, lines 266-302, with save_data_to_csv.   *)
(* A file is known by the ids of the lines the run appended to it.          *)

\* most year links of a run
MaxYears == 2

\* lines 229-235: the items of year_table_data, in order
TableTypes == <<"hitters", "pitchers", "team_standings", "pitcher_leaderboard",
                "hitter_leaderboard">>

\* rows[1 : len(rows) - 2] of the tables a year page hands over: no row, one
\* record, two records, and two records under two banners of which only the
\* first names a division
RunWindows ==
    { <<>>,
      << <<bW, bL>>, <<dA, dB>> >>,
      << <<bW, bL>>, <<dA, dB>>, <<dB, dA>> >>,
      << <<bE, bW>>, <<dA>>, <<bW>>, <<dB>> >> }

\* lines 175-181: the tables get_data returns for them
RunTables == { TableData(Text(<<"Team", "Standings">>), Text(<<"American">>), w) : w \in RunWindows }

\* csv.DictWriter.writerow: the keys of the row that are no field name
WrongFields(row, fieldnames) == DOMAIN row \ {fieldnames[i] : i \in 1..Len(fieldnames)}

\* lines 252-262: how many rows are written before writerow raises ValueError
\* (all of them when none raises)
RowsWritten(data, hs) ==
    LET fieldnames == <<"id", "year">> \o hs
        bad == {i \in 1..Len(data) :
                    WrongFields([k \in DOMAIN data[i] \cup {"id", "year"} |-> ""], fieldnames) # {}}
    IN IF bad = {} THEN Len(data)
       ELSE (CHOOSE i \in bad : \A j \in bad : i <= j) - 1

\* a counter that is moved by one for a whole table
NextCounterByOne(counter, data) == counter + 1

\* line 299
NextCounter(counter, data) == counter + Len(data)

\* lines 259-262: the ids of the lines written, from start_id on
WrittenIds(start_id, count) == [i \in 1..count |-> start_id + i - 1]

\* lines 270-275
RunInit ==
    /\ n_years \in 0..MaxYears
    /\ year_index = 0 /\ type_index = 0 /\ table = NoResult
    /\ row_counters = [key \in Kinds |-> 1]
    /\ stores = [key \in Kinds |-> <<>>]
    /\ run_pc = "scrape"
    /\ walk_idle /\ page_idle /\ clean_idle /\ proc_idle

\* lines 276-279: the next year page is scraped
ScrapeYear ==
    /\ run_pc = "scrape" /\ year_index < n_years
    /\ run_pc' = "items" /\ type_index' = 0
    /\ UNCHANGED <<n_years, year_index, table, row_counters, stores>>
    /\ UNCHANGED <<walk_vars, page_vars, clean_vars, proc_vars>>

\* line 279: scrape_year_page raises (the page does not load, get_data raises);
\* nothing catches it
ScrapeFails ==
    /\ run_pc = "scrape" /\ year_index < n_years
    /\ run_pc' = "raised"
    /\ UNCHANGED <<n_years, year_index, type_index, table, row_counters, stores>>
    /\ UNCHANGED <<walk_vars, page_vars, clean_vars, proc_vars>>

\* lines 282-285: the page has no table of this type
SkipTable ==
    /\ run_pc = "items" /\ type_index < Len(TableTypes)
    /\ table' = NoResult
    /\ type_index' = type_index + 1
    /\ UNCHANGED <<n_years, year_index, row_counters, stores, run_pc>>
    /\ UNCHANGED <<walk_vars, page_vars, clean_vars, proc_vars>>

\* lines 287-299 with 240-262: the table of this type is appended to its file
SaveTable ==
    /\ run_pc = "items" /\ type_index < Len(TableTypes)
    /\ \E t \in RunTables :
        LET table_type == TableTypes[type_index + 1]
            written == RowsWritten(t.rows, t.headers)
        IN /\ table' = Some(t)
           /\ stores' = [stores EXCEPT ![table_type] =
                            @ \o WrittenIds(row_counters[table_type], written)]
           /\ IF written = Len(t.rows)
              THEN /\ row_counters' = [row_counters EXCEPT ![table_type] = NextCounter(@, t.rows)]
                   /\ type_index' = type_index + 1
                   /\ run_pc' = run_pc
              ELSE /\ run_pc' = "raised"
                   /\ UNCHANGED <<row_counters, type_index>>
    /\ UNCHANGED <<n_years, year_index>>
    /\ UNCHANGED <<walk_vars, page_vars, clean_vars, proc_vars>>

\* line 282: the items of this page are exhausted
NextYear ==
    /\ run_pc = "items" /\ type_index = Len(TableTypes)
    /\ year_index' = year_index + 1
    /\ run_pc' = "scrape"
    /\ UNCHANGED <<n_years, type_index, table, row_counters, stores>>
    /\ UNCHANGED <<walk_vars, page_vars, clean_vars, proc_vars>>

\* lines 276, 301-302: the year links are exhausted
RunEnd ==
    /\ run_pc = "scrape" /\ year_index = n_years
    /\ run_pc' = "done"
    /\ UNCHANGED <<n_years, year_index, type_index, table, row_counters, stores>>
    /\ UNCHANGED <<walk_vars, page_vars, clean_vars, proc_vars>>

RunNext == ScrapeYear \/ ScrapeFails \/ SkipTable \/ SaveTable \/ NextYear \/ RunEnd
SpecRun == RunInit /\ [][RunNext]_vars

-----------------------------------------------------------------------------
(* The row walk: what the properties below read off a step.                 *)
(* Positions p are 1-based (header_index = p - 1).  A step is taken from    *)
(* the unprimed state; cells' is the row it processed.                      *)

IsDataStep == row_index' = row_index + 1 /\ ~IsBannerRow(cells')
IsBannerStep == row_index' = row_index + 1 /\ IsBannerRow(cells')
NewRecord == data_rows'[Len(data_rows')]
HeaderNames == {headers[i] : i \in 1..Len(headers)}

\* position p is filled with the group label
ByDivision(p) == headers[p] = "Division" /\ current_division # None
\* position p is filled from a rowspan entry with remaining > 0
ByRowspan(p) ==
    /\ ~ByDivision(p)
    /\ (p - 1) \in DOMAIN rowspan_tracker
    /\ rowspan_tracker[p - 1].remaining > 0
\* how many of the positions 1..p take a physical cell, if there is one left
CellRank(p) == Cardinality({q \in 1..p : ~ByDivision(q) /\ ~ByRowspan(q)})
\* no later position has the same header name (the record keeps the last write)
LastOfName(p) == \A q \in (p + 1)..Len(headers) : headers[q] # headers[p]
LastRecord == IF data_rows = <<>> THEN EmptyDict ELSE data_rows[Len(data_rows)]

(* C1, as amended.  A rowspan entry is never removed.  While its remaining  *)
(* is k > 0, a banner row leaves it as it is, and so does a data row whose  *)
(* header walk does not use position p (the header list is shorter than p,  *)
(* or p is a Division header under a group label); every other data row     *)
(* emits the stored value at p, takes no physical cell for it (the cells go *)
(* to the other positions in order) and leaves remaining = k - 1.  With     *)
(* remaining = 0 the entry is dead: position p takes a cell or the ragged   *)
(* value again.                                                             *)
C1_Step ==
    /\ \A hi \in DOMAIN rowspan_tracker :
        LET e == rowspan_tracker[hi]
            p == hi + 1
            used == IsDataStep /\ p <= Len(headers) /\ ~ByDivision(p)
        IN /\ hi \in DOMAIN rowspan_tracker'
           /\ (e.remaining > 0 /\ used) =>
                /\ rowspan_tracker'[hi] = [value |-> e.value, remaining |-> e.remaining - 1]
                /\ LastOfName(p) => NewRecord[headers[p]] = e.value
           /\ (e.remaining > 0 /\ ~used) => rowspan_tracker'[hi] = e
           /\ (e.remaining <= 0 /\ used /\ LastOfName(p)) =>
                NewRecord[headers[p]] =
                    IF CellRank(p) <= Len(cells') THEN cells'[CellRank(p)].text
                    ELSE DictGet(previous_row_data, headers[p], "")
    /\ IsDataStep =>
        \A q \in 1..Len(headers) :
            (~ByDivision(q) /\ ~ByRowspan(q) /\ CellRank(q) <= Len(cells') /\ LastOfName(q))
                => NewRecord[headers[q]] = cells'[CellRank(q)].text
C1_RowspanCarried == [][C1_Step]_vars

\* C1: an entry installed by a cell spanning 3 rows gave its value to the two
\* data rows after it, which had one cell each, and is now dead
C1_Witness ==
    /\ 1 \in DOMAIN rowspan_tracker
    /\ rowspan_tracker[1] = [value |-> "a", remaining |-> 0]
    /\ headers = <<"wins", "losses">>
    /\ cells = <<dB>>
    /\ Len(data_rows) = 3
    /\ data_rows[2] = [wins |-> "b", losses |-> "a"]
    /\ data_rows[3] = [wins |-> "b", losses |-> "a"]

(* C1 as stated: an entry with remaining = k > 0 gives its value to         *)
(* position p of the very next data row, whatever banner rows came in       *)
(* between, and after the k-th use it is absent (read here as: absent or    *)
(* left with remaining = 0).                                                *)
C1_Original ==
    [][\A hi \in DOMAIN rowspan_tracker :
        (rowspan_tracker[hi].remaining > 0 /\ IsDataStep) =>
            /\ hi + 1 <= Len(headers)
            /\ LastOfName(hi + 1) => NewRecord[headers[hi + 1]] = rowspan_tracker[hi].value
            /\ \/ hi \notin DOMAIN rowspan_tracker'
               \/ rowspan_tracker'[hi].remaining = rowspan_tracker[hi].remaining - 1]_vars

(* C2.  In a data row, a position reached after the cells ran out, and not  *)
(* filled by the Division or the rowspan rule, gets the value the last      *)
(* appended record holds under that header name, or "" if it has no such    *)
(* key (or there is no record yet).                                         *)
C2_RaggedCopiesPrevious ==
    [][IsDataStep =>
        \A p \in 1..Len(headers) :
            (~ByDivision(p) /\ ~ByRowspan(p) /\ CellRank(p) > Len(cells') /\ LastOfName(p))
                => NewRecord[headers[p]] =
                     IF headers[p] \in DOMAIN LastRecord THEN LastRecord[headers[p]] ELSE ""]_vars

\* C2: the spec's example, with a banner row between the two data rows
C2_Witness ==
    /\ headers = <<"wins", "losses">>
    /\ cells = <<dB>>
    /\ Len(data_rows) = 2
    /\ banners_seen = 2
    /\ data_rows[1] = [wins |-> "a", losses |-> "a"]
    /\ data_rows[2] = [wins |-> "b", losses |-> "a"]
    /\ rowspan_tracker = EmptyDict

\* the names a banner row's cells contribute, cell by cell
Contributes(cell) ==
    IF cell.cls = "banner middle" /\ cell.rowspan # ""
    THEN cell.text = "East"
    ELSE cell.cls \in {"banner", "banner middle"}
ContributedName(cell) ==
    IF cell.cls = "banner middle" /\ cell.rowspan # "" THEN "Division"
    ELSE header_map(cell.text)
NoDuplicates(seq) == \A i, j \in 1..Len(seq) : seq[i] = seq[j] => i = j

(* C3, as amended.  After a banner row the header list holds one name per   *)
(* contributing cell of that row and no other name: nothing of the list     *)
(* before the row is kept.  (Two cells that contribute the same name leave  *)
(* the name in the list twice.)                                             *)
C3_HeadersRebuilt ==
    IsBannerRow(cells) =>
        /\ HeaderNames = {ContributedName(cells[i]) : i \in {j \in 1..Len(cells) : Contributes(cells[j])}}
        /\ Len(headers) = Cardinality({j \in 1..Len(cells) : Contributes(cells[j])})

\* C3: a second banner row replaced a two-name header list by a different one
C3_Witness ==
    /\ IsBannerRow(cells)
    /\ cells = <<bL>>
    /\ headers = <<"losses">>
    /\ banners_seen = 2
    /\ \E i \in 1..Len(data_rows) : DOMAIN data_rows[i] = {"Division", "wins"}

(* C3 as stated: after a banner row the header list has no duplicate names  *)
(* and holds only names that row's cells contribute.                        *)
C3_Original ==
    IsBannerRow(cells) =>
        /\ NoDuplicates(headers)
        /\ HeaderNames \subseteq {ContributedName(cells[i]) : i \in {j \in 1..Len(cells) : Contributes(cells[j])}}

(* C4.  The record a data row appends has exactly the names of the header   *)
(* list as its keys.                                                        *)
C4_RecordKeysAreHeaders ==
    (data_rows # <<>> /\ ~IsBannerRow(cells)) => DOMAIN LastRecord = HeaderNames

\* C4: a record built by the Division and the ragged rule together, and an
\* empty record from a data row seen before any banner
C4_Witness ==
    /\ ~IsBannerRow(cells)
    /\ cells = <<>>
    /\ headers = <<"Division", "wins">>
    /\ Len(data_rows) = 2
    /\ data_rows[1] = EmptyDict
    /\ data_rows[2] = [Division |-> "East", wins |-> ""]

(* C5.  The walk visits the rows 1 .. len(rows) - 3 in order, one a step;   *)
(* a banner row appends nothing, any other row appends one record at the    *)
(* end of data_rows; so the records are as many as the non-banner rows      *)
(* walked.                                                                  *)
C5_Step ==
    /\ row_index >= 1 /\ row_index <= len_rows - 3
    /\ row_index' = row_index + 1
    /\ IsBannerRow(cells') => data_rows' = data_rows
    /\ ~IsBannerRow(cells') =>
        /\ Len(data_rows') = Len(data_rows) + 1
        /\ SubSeq(data_rows', 1, Len(data_rows)) = data_rows
C5_Count ==
    /\ row_index >= 1
    /\ row_index <= (IF len_rows >= 3 THEN len_rows - 2 ELSE 1)
    /\ Len(data_rows) = (row_index - 1) - banners_seen
C5_WalkWindow == [](C5_Count) /\ [][C5_Step]_vars

\* C5: a table of 7 rows walked to the end, two of its four walked rows banners
C5_Witness ==
    /\ len_rows = 7
    /\ row_index = len_rows - 2
    /\ banners_seen = 2
    /\ Len(data_rows) = 2

-----------------------------------------------------------------------------
(* The page loop: what the properties below read off a step.  A step that   *)
(* read a table to the end leaves it in last_table'; div_index is then the  *)
(* table's ordinal on the page.                                             *)

ParsedStep == div_index' = div_index + 1 /\ last_table'.outcome = "parsed"
ParsedData == TableData(last_table'.title, last_table'.subtitle, last_table'.window)
IsTeamReview(title) == Contains(Lower(title), <<"team", "review">>)

(* C6 as stated: a table whose caption contains "team review" goes to the   *)
(* hitter leaderboard if its subcaption contains "hitting", to the pitcher  *)
(* leaderboard if it contains "pitching", and to no result otherwise.       *)
C6_Original ==
    [][(ParsedStep /\ IsTeamReview(last_table'.title)) =>
        results' =
            IF Contains(Lower(last_table'.subtitle), <<"hitting">>)
            THEN [results EXCEPT !["hitter_leaderboard"] = <<ParsedData>>]
            ELSE IF Contains(Lower(last_table'.subtitle), <<"pitching">>)
            THEN [results EXCEPT !["pitcher_leaderboard"] = <<ParsedData>>]
            ELSE results]_vars

(* C7 as stated: a table whose caption does not contain "team review" goes  *)
(* by its ordinal on the page: the first to hitters, the second to          *)
(* pitchers, the third to team_standings if caption+subcaption contains     *)
(* "team standings", any other to no result.                                *)
C7_Original ==
    [][(ParsedStep /\ ~IsTeamReview(last_table'.title)) =>
        results' =
            IF div_index = 0 THEN [results EXCEPT !["hitters"] = <<ParsedData>>]
            ELSE IF div_index = 1 THEN [results EXCEPT !["pitchers"] = <<ParsedData>>]
            ELSE IF /\ div_index = 2
                    /\ Contains(Concat(Lower(last_table'.title), Lower(last_table'.subtitle)),
                                <<"team", "standings">>)
            THEN [results EXCEPT !["team_standings"] = <<ParsedData>>]
            ELSE results]_vars

-----------------------------------------------------------------------------
(* The cleaners: what the properties below read off a cleaned DataFrame.    *)

TeamEmpty(row) == IsNa(row["team_roster"]) \/ row["team_roster"] = Str(<<>>)
\* text that is no number
NonNumericText(v) == v.t = "str" /\ v.s # <<>> /\ ParseNumber(v.s) = NaN
\* a number, or text that reads as one
NumericValue(v) == v.t = "num" \/ (v.t = "str" /\ ParseNumber(v.s) # NaN)
Shifted(row) ==
    [name \in DOMAIN row |->
        CASE name = "team_roster" -> row["wins"]
          [] name = "wins" -> row["losses"]
          [] name = "losses" -> row["win_percentage"]
          [] name = "win_percentage" -> row["games_behind"]
          [] name = "games_behind" -> PyNone
          [] OTHER -> row[name]]

(* C8: once clean_team_standings has run, every input record whose          *)
(* team_roster is empty or missing and whose wins is non-numeric text has   *)
(* been repaired to team_roster = its wins, wins = its losses, losses = its *)
(* win_percentage, win_percentage = its games_behind, games_behind empty,   *)
(* and the repair neither adds nor removes a record.                        *)
C8_ShiftRepair ==
    clean_pc = "done" =>
        /\ Len(df_fixed) = Len(df_in)
        /\ \A i \in 1..Len(df_in) :
            (TeamEmpty(df_in[i]) /\ NonNumericText(df_in[i]["wins"])) =>
                /\ df_fixed[i]["team_roster"] = df_in[i]["wins"]
                /\ df_fixed[i]["wins"] = df_in[i]["losses"]
                /\ df_fixed[i]["losses"] = df_in[i]["win_percentage"]
                /\ df_fixed[i]["win_percentage"] = df_in[i]["games_behind"]
                /\ IsNa(df_fixed[i]["games_behind"])

\* a stored row that lost its first column is repaired and survives the cleaning
C8_Witness ==
    /\ clean_pc = "done" /\ df_source = "file" /\ Len(df_in) = 1
    /\ df_in[1]["team_roster"] = Str(<<>>) /\ df_in[1]["wins"] = Str(cNY)
    /\ df_fixed[1]["team_roster"] = Str(cNY) /\ df_fixed[1]["games_behind"] = PyNone
    /\ Len(df_out) = 1
    /\ df_out[1]["team_roster"] = Str(cNY) /\ df_out[1]["wins"] = Num(95000)
    /\ df_out[1]["win_percentage"] = Num(586)

(* C9 as stated: the repair is applied to a record exactly when its         *)
(* team_roster is empty or missing and its wins holds non-numeric text; a   *)
(* record with empty team_roster and a numeric wins (the number 95 or the   *)
(* text "95") is left unshifted, and a record with a non-empty team_roster  *)
(* is left unchanged in every field.                                        *)
C9_Original ==
    clean_pc = "done" =>
        \A i \in 1..Len(df_in) :
            /\ (TeamEmpty(df_in[i]) /\ NonNumericText(df_in[i]["wins"])) =>
                    df_fixed[i] = Shifted(df_in[i])
            /\ (TeamEmpty(df_in[i]) /\ NumericValue(df_in[i]["wins"])) =>
                    df_fixed[i] = df_in[i]
            /\ ~TeamEmpty(df_in[i]) => df_fixed[i] = df_in[i]

\* a leaderboard field that is missing: null, or the blank the loader pads with
MissingField(v) == IsNa(v) \/ v = Str(<<>>)
MissingLeader(row) ==
    MissingField(row["statistic"]) \/ MissingField(row["team"]) \/ MissingField(row["value"])
\* the record the cleaning keeps for a loaded row
CleanedLeader(row) == [Record(row) EXCEPT !["value"] = ValueToNumeric(@)]

(* C10 as stated: after load_csv_with_fallback and clean_leaderboard, a     *)
(* loaded row is dropped exactly when its statistic, team or value is       *)
(* missing, a row padded by the loader included; every other row is kept    *)
(* with its value made numeric (null when it does not parse) and its other  *)
(* fields unchanged.                                                        *)
C10_Original ==
    clean_pc = "done" =>
        \A i \in 1..Len(df_in) :
            (\E j \in 1..Len(df_out) : Record(df_out[j]) = CleanedLeader(df_in[i]))
                <=> ~MissingLeader(df_in[i])

-----------------------------------------------------------------------------
(* The loader: the fields of a stored line are the pieces between its       *)
(* commas, the line taken without the white space around it.                *)

FieldsOf(line) == SplitComma(Strip(line))
Width == Len(team_standings_columns)
\* the fields of the i-th loaded row, in column order
LoadedFields(i) == [k \in 1..Width |-> df_in[i][team_standings_columns[k]]]

(* C11: load_csv_with_fallback returns one row per stored line, in line     *)
(* order, each of exactly len(expected_columns) fields: the first           *)
(* len(expected_columns) fields of a longer line, all fields of a shorter   *)
(* line followed by empty strings, the fields of a line of exact width.     *)
C11_WidthReconciled ==
    df_source = "file" =>
        /\ Len(df_in) = Len(file_lines)
        /\ \A i \in 1..Len(file_lines) :
            LET fields == FieldsOf(file_lines[i])
            IN /\ DOMAIN df_in[i] = {team_standings_columns[k] : k \in 1..Width} \cup {"index"}
               /\ df_in[i]["index"] = Num(1000 * (i - 1))
               /\ \A k \in 1..Width :
                    LoadedFields(i)[k] = IF k <= Len(fields) THEN Str(fields[k]) ELSE Str(<<>>)

\* a file of a 9-field line and a 5-field line: truncated to 7, padded by two
C11_Witness ==
    /\ df_source = "file" /\ Len(file_lines) = 2
    /\ Len(FieldsOf(file_lines[1])) = 9 /\ Len(FieldsOf(file_lines[2])) = 5
    /\ df_in[1]["games_behind"] = Str(cGB)
    /\ df_in[2]["losses"] = Str(c67)
    /\ df_in[2]["win_percentage"] = Str(<<>>) /\ df_in[2]["games_behind"] = Str(<<>>)

(* C12 as stated: a failure in one table's processing is confined to that   *)
(* table: get_data never raises, and it returns only after every table of   *)
(* the page was traversed.                                                  *)
C12_Original ==
    /\ page_pc # "raised"
    /\ page_pc = "returned" => div_index = n_divs

(* C13 as stated: for every input to process_dataframes the returned        *)
(* mapping has an entry for every input table kind, holding a table of the  *)
(* same or fewer records, and the caller reads all five kinds without       *)
(* error.                                                                   *)
C13_Original ==
    /\ proc_pc # "raised"
    /\ proc_pc \in {"returned", "written"} =>
        \A name \in DOMAIN dataframes :
            /\ name \in DOMAIN cleaned_dataframes
            /\ Len(cleaned_dataframes[name].rows) <= Len(dataframes[name].rows)

-----------------------------------------------------------------------------
(* The run: what the properties below read off a step of the year loop.     *)

\* the inner loop passed over an item that holds no table
SkipStep == type_index' = type_index + 1 /\ table' = NoResult
\* the inner loop handed an item's table to save_data_to_csv
SaveStep == table' # NoResult /\ (type_index' = type_index + 1 \/ run_pc' = "raised")
            /\ run_pc = "items"
\* the table type of the item the step visits
StepType == TableTypes[type_index + 1]

C14_Contiguous ==
    \A key \in Kinds :
        /\ \A i \in 1..Len(stores[key]) : stores[key][i] = i
        /\ run_pc # "raised" => row_counters[key] = Len(stores[key]) + 1
C14_SkipKeeps == SkipStep => (row_counters' = row_counters /\ stores' = stores)

-----------------------------------------------------------------------------
(* Banner rows, cell by cell *)

\* a row-spanning middle banner whose text names a division
DivisionCell(cell) ==
    cell.cls = "banner middle" /\ cell.rowspan # "" /\ cell.text \in {"East", "West"}
\* the names C15 has a banner row contribute, left to right
RECURSIVE BannerNamesAsStated(_)
BannerNamesAsStated(row) ==
    IF row = <<>> THEN <<>>
    ELSE LET cell == Head(row)
         IN (IF DivisionCell(cell) THEN <<"Division">>
             ELSE IF cell.cls \in {"banner", "banner middle"} THEN <<header_map(cell.text)>>
             ELSE <<>>)
            \o BannerNamesAsStated(Tail(row))

(* C15 as stated: after a banner row the header list holds, left to right,  *)
(* the header_map image of the text of every cell with a banner style that  *)
(* is no row-spanning middle banner with East/West text (a row-spanning     *)
(* middle banner with another text included), Division for the East/West   *)
(* ones, and nothing for cells without a banner style.                      *)
C15_Original ==
    IsBannerRow(cells) => headers = BannerNamesAsStated(cells)

\* the text of the last division cell of a row
RECURSIVE GroupLabelOf(_)
GroupLabelOf(row) ==
    IF row = <<>> THEN None
    ELSE IF DivisionCell(row[Len(row)]) THEN row[Len(row)].text
    ELSE GroupLabelOf(SubSeq(row, 1, Len(row) - 1))

C16_Label == current_division # None => "Division" \in HeaderNames
C16_Step ==
    /\ IsBannerStep =>
        /\ current_division' = GroupLabelOf(cells')
        /\ (\A i \in 1..Len(cells') : ~DivisionCell(cells'[i])) =>
                /\ current_division' = None
                /\ \A p \in 1..Len(headers') : headers'[p] # "Division"
    /\ IsDataStep =>
        /\ current_division' = current_division /\ headers' = headers
        /\ current_division # None =>
            /\ NewRecord["Division"] = current_division
            /\ \A p \in 1..Len(headers) :
                (headers[p] = "Division" /\ (p - 1) \in DOMAIN rowspan_tracker) =>
                    rowspan_tracker'[p - 1] = rowspan_tracker[p - 1]
            /\ \A q \in 1..Len(headers) :
                (/\ headers[q] # "Division" /\ ~ByRowspan(q) /\ LastOfName(q)
                 /\ Cardinality({r \in 1..q : headers[r] # "Division" /\ ~ByRowspan(r)})
                        <= Len(cells'))
                    => NewRecord[headers[q]] =
                        cells'[Cardinality({r \in 1..q : headers[r] # "Division"
                                                         /\ ~ByRowspan(r)})].text

(* C16: a banner row sets the group label to the East/West text t of its    *)
(* row-spanning middle-banner cell and to nothing if it has no such cell    *)
(* (then the header list has no Division either); until the next banner     *)
(* row every data row's record has Division = t, the label and the header   *)
(* list stay, a rowspan entry at a Division position is left untouched, and *)
(* the row's cells go to the other positions in order.                      *)
C16_DivisionLabel == [](C16_Label) /\ [][C16_Step]_vars

\* a live rowspan entry sits at the Division position; the record took the label
C16_Witness ==
    /\ current_division = "East" /\ headers = <<"Division", "wins">>
    /\ 0 \in DOMAIN rowspan_tracker /\ rowspan_tracker[0].remaining > 0
    /\ rowspan_tracker[0].value = "a"
    /\ cells = <<dB>>
    /\ LastRecord = [Division |-> "East", wins |-> "b"]

-----------------------------------------------------------------------------
(* The output of clean_team_standings *)

\* a text of digits (and digit-like glyphs) only
PurelyNumeric(v) == v.t = "str" /\ v.s # <<>> /\ \A i \in 1..Len(v.s) : v.s[i] \in Digits \cup {Half}
\* the repaired input rows with their numeric columns made numeric
CoercedInput == CoerceStandings(df_fixed)
StrictlyIncreasing(f) == \A j, k \in DOMAIN f : j < k => f[j] < f[k]

(* C17: once clean_team_standings has run, every output record has a        *)
(* team_roster that is not purely numeric and a number for wins, losses and *)
(* win_percentage; no two output records are equal; the output records are  *)
(* input records in their input order; the output index is 0..n-1.          *)
C17_CleanOutput ==
    clean_pc = "done" =>
        /\ \A j \in 1..Len(df_out) :
            /\ ~PurelyNumeric(df_out[j]["team_roster"])
            /\ df_out[j]["wins"].t = "num"
            /\ df_out[j]["losses"].t = "num"
            /\ df_out[j]["win_percentage"].t = "num"
            /\ df_out[j]["index"] = Num(1000 * (j - 1))
        /\ \A j, k \in 1..Len(df_out) : Record(df_out[j]) = Record(df_out[k]) => j = k
        /\ \E f \in [1..Len(df_out) -> 1..Len(df_in)] :
            /\ StrictlyIncreasing(f)
            /\ \A j \in 1..Len(df_out) : Record(df_out[j]) = Record(CoercedInput[f[j]])

\* a file of a rank-number row and a team row: the second alone survives, as row 0
C17_Witness ==
    /\ clean_pc = "done" /\ df_source = "file" /\ Len(df_in) = 2
    /\ df_in[1]["team_roster"] = Str(<<"7">>) /\ df_in[1]["wins"] = Str(c95)
    /\ df_in[1]["games_behind"] = Str(cGB)
    /\ df_in[2]["team_roster"] = Str(cNY)
    /\ Len(df_out) = 1
    /\ df_out[1]["index"] = Num(0) /\ df_out[1]["team_roster"] = Str(cNY)
    /\ df_out[1]["wins"] = Num(95000) /\ df_out[1]["games_behind"] = Num(3500)

(* C18 as stated: persisting a table get_data returned never aborts the     *)
(* year loop: save_data_to_csv writes one line per record, also for a table *)
(* whose earlier records carry a key (Division) that the last header list   *)
(* lacks, and the loop goes on to the next item.                            *)
C18_Original ==
    [][SaveStep =>
        /\ Len(stores'[StepType]) = Len(stores[StepType]) + Len(table'[1].rows)
        /\ run_pc' = "items"
        /\ type_index' = type_index + 1]_vars

====
